---- MODULE Spec2Model ----
(***************************************************************************)
(* The load generator dashboards of k8s-sample-app.                        *)
(*                                                                         *)
(* Two React components are modelled, selected by `variant`:               *)
(*   "GET"  - the dashboard with chart and network view (GET /app/sample)  *)
(*   "POST" - frontend/src/App.tsx (POST /app/sample)                      *)
(*                                                                         *)
(* A step of the model is one JavaScript task: a timer callback, a click   *)
(* or change handler, or the continuation of sendRequest after an await.   *)
(* The state updaters a task queues (setStats, setLogs, setChartData) are  *)
(* applied in the order they were queued, and the state shown is the one   *)
(* after all of them.                                                      *)
(*                                                                         *)
(* Time is counted in half milliseconds so that Math.round has something   *)
(* to round.                                                               *)
(***************************************************************************)
EXTENDS Integers, Sequences, FiniteSets, TLC

VARIABLES
    variant,     \* which component is mounted
    interval,    \* intervalMs (GET) or intervalSec (POST)
    isRunning,   \* useState isRunning
    timer,       \* period in ms of the active setInterval timer, 0 when none
    stats,       \* useState stats
    logs,        \* useState logs
    chartData,   \* useState chartData (GET only)
    reqs,        \* suspended sendRequest calls: call number -> its locals
    ticks,       \* number of sendRequest calls made since the initial state
    nextUuid,    \* number of ids crypto.randomUUID has handed out
    now,         \* the clock, in half milliseconds
    wasReset     \* history: resetStats has run

vars == <<variant, interval, isRunning, timer, stats, logs, chartData,
          reqs, ticks, nextUuid, now, wasReset>>

----------------------------------------------------------------------------
(* Bounds of the model *)

MaxReqs == 2
MaxTime == 1

(* Program constants *)

GetLogCap == 200
ChartCap == 200
PostLogCap == 50

Variants == {"GET", "POST"}

(* What the endpoint can answer: status and statusText of the Response. *)
Responses ==
    { [status |-> 200, statusText |-> "OK"],
      [status |-> 299, statusText |-> ""],
      [status |-> 300, statusText |-> "Multiple Choices"],
      [status |-> 500, statusText |-> "Internal Server Error"] }

(* What a rejected await can throw: an Error with a message, or a value
   that is no Error. *)
Thrown ==
    { [isError |-> TRUE, message |-> "Failed to fetch"],
      [isError |-> FALSE, message |-> ""] }

(* What res.json() can produce: a JSON object, the JSON value null, or a
   rejection because the body is no JSON. *)
Bodies == {"object", "null"}

JsonSyntaxError == [isError |-> TRUE, message |-> "Unexpected token"]
NullTypeError == [isError |-> TRUE, message |-> "Cannot read properties of null"]

(* Values typed into the interval input. *)
InputValues == {"", "0", "1000"}

----------------------------------------------------------------------------
(* Pure helpers *)

(* Response.ok *)
(* faulty variant: redirects taken for ok *)
OkMutBelow400(res) == res.status >= 200 /\ res.status < 400
Ok(res) == res.status >= 200 /\ res.status <= 299

(* Math.round of a non-negative duration given in half milliseconds *)
MathRound(d) == (d + 1) \div 2

(* performance.now() differences: endTime - startTime, rounded *)
Latency(startTime, endTime) == MathRound(endTime - startTime)

(* Date.now(): whole milliseconds *)
DateNow(t) == t \div 2

(* new Date().toLocaleTimeString(): whole seconds *)
LocaleTimeString(t) == t \div 2000

(* Array.prototype.slice(-n) *)
(* faulty variant: slice(0, n), keeping the oldest *)
SliceLastMutHead(s, n) == IF Len(s) <= n THEN s ELSE SubSeq(s, 1, n)
SliceLast(s, n) ==
    IF Len(s) <= n THEN s ELSE SubSeq(s, Len(s) - n + 1, Len(s))

(* error instanceof Error ? error.message : "Network Error" *)
(* faulty variant: no fallback message *)
ErrorMessageMutNoFallback(error) == error.message
ErrorMessage(error) == IF error.isError THEN error.message ELSE "Network Error"

(* parseInt(e.target.value) || 100 and parseFloat(e.target.value) || 1 *)
ParseNumber(v) ==
    CASE v = "" -> [isNaN |-> TRUE, n |-> 0]
      [] v = "0" -> [isNaN |-> FALSE, n |-> 0]
      [] v = "1000" -> [isNaN |-> FALSE, n |-> 1000]
OrDefault(p, d) == IF p.isNaN \/ p.n = 0 THEN d ELSE p.n

LogCap == IF variant = "GET" THEN GetLogCap ELSE PostLogCap

----------------------------------------------------------------------------
(* State updaters *)

(* stats updaters of the GET component *)
GetStatSuccess(prev, latency) ==
    [prev EXCEPT !.total = @ + 1, !.success = @ + 1, !.totalLatency = @ + latency]
(* faulty variant: the error updater forgets total *)
GetStatErrorMutNoTotal(prev, latency) ==
    [prev EXCEPT !.error = @ + 1, !.totalLatency = @ + latency]
GetStatError(prev, latency) ==
    [prev EXCEPT !.total = @ + 1, !.error = @ + 1, !.totalLatency = @ + latency]

(* stats updaters of the POST component *)
PostStatSuccess(prev) == [prev EXCEPT !.total = @ + 1, !.success = @ + 1]
PostStatError(prev) == [prev EXCEPT !.total = @ + 1, !.error = @ + 1]

(* setLogs((prev) => [...prev, pendingLog].slice(-200)) *)
(* faulty variant: [pendingLog, ...prev] *)
AddPendingLogMutPrepend(prev, pendingLog) ==
    SliceLast(<<pendingLog>> \o prev, GetLogCap)
AddPendingLog(prev, pendingLog) == SliceLast(Append(prev, pendingLog), GetLogCap)

(* setChartData((prev) => [...prev, {time, latency}].slice(-200)) *)
AddChartPoint(prev, point) == SliceLast(Append(prev, point), ChartCap)

(* {...log, status, statusCode, message, latency} *)
Settled(log, status, statusCode, message, latency) ==
    [id |-> log.id, timestamp |-> log.timestamp, startTime |-> log.startTime,
     status |-> status, statusCode |-> statusCode, message |-> message,
     latency |-> latency]

(* setLogs((prev) => prev.map((log) => log.id === requestId ? {...} : log)) *)
(* faulty variant: the map ignores the id *)
UpdateLogMutAll(prev, requestId, status, statusCode, message, latency) ==
    [i \in DOMAIN prev |-> Settled(prev[i], status, statusCode, message, latency)]
(* faulty variant: an entry is created when none has the id *)
UpdateLogMutUpsert(prev, requestId, status, statusCode, message, latency) ==
    IF \E i \in DOMAIN prev : prev[i].id = requestId
    THEN [i \in DOMAIN prev |->
             IF prev[i].id = requestId
             THEN Settled(prev[i], status, statusCode, message, latency)
             ELSE prev[i]]
    ELSE Append(prev, [id |-> requestId, timestamp |-> 0, startTime |-> 0,
                       status |-> status, statusCode |-> statusCode,
                       message |-> message, latency |-> latency])
UpdateLog(prev, requestId, status, statusCode, message, latency) ==
    [i \in DOMAIN prev |->
        IF prev[i].id = requestId
        THEN Settled(prev[i], status, statusCode, message, latency)
        ELSE prev[i]]

(* addLog of the POST component *)
AddLog(prev, id, timestamp, status, message, latency) ==
    SliceLast(Append(prev, [id |-> id, timestamp |-> timestamp, status |-> status,
                            message |-> message, latency |-> latency]),
              PostLogCap)

ZeroStats(v) ==
    IF v = "GET"
    THEN [total |-> 0, success |-> 0, error |-> 0, totalLatency |-> 0]
    ELSE [total |-> 0, success |-> 0, error |-> 0]

InitialInterval(v) == IF v = "GET" THEN 1000 ELSE 1

(* the period handed to setInterval *)
Period(v, n) == IF v = "GET" THEN n ELSE n * 1000

----------------------------------------------------------------------------
(* Derived metrics, computed on every render *)

(* (n / d).toFixed(2) for n >= 0 and d > 0: the quotient rounded to
   hundredths, as <<integer part, first decimal, second decimal>> *)
ToFixed2(n, d) ==
    LET h == (200 * n + d) \div (2 * d)
    IN <<h \div 100, (h % 100) \div 10, h % 10>>

(* the literal "0.00" *)
ZeroZeroZero == <<0, 0, 0>>

(* faulty variant: the ratio is not scaled to a percentage *)
ErrorRateMutNoScale ==
    IF stats.total > 0 THEN ToFixed2(stats.error, stats.total) ELSE ZeroZeroZero
ErrorRate ==
    IF stats.total > 0 THEN ToFixed2(stats.error * 100, stats.total) ELSE ZeroZeroZero

(* GET component only *)
AvgLatency ==
    IF stats.total > 0 THEN ToFixed2(stats.totalLatency, stats.total) ELSE ZeroZeroZero

----------------------------------------------------------------------------
(* Initial state: the component as mounted *)

Init ==
    /\ variant \in Variants
    /\ interval = InitialInterval(variant)
    /\ isRunning = FALSE
    /\ timer = 0
    /\ stats = ZeroStats(variant)
    /\ logs = <<>>
    /\ chartData = <<>>
    /\ reqs = <<>>
    /\ ticks = 0
    /\ nextUuid = 0
    /\ now = 0
    /\ wasReset = FALSE

----------------------------------------------------------------------------
(* Suspended calls *)

Suspend(i, locals) == (i :> locals) @@ reqs
Finish(i) == [j \in (DOMAIN reqs) \ {i} |-> reqs[j]]

----------------------------------------------------------------------------
(* Controls, the same in both components *)

(* toggleRunning, and the effect that clears and sets the interval timer *)
ToggleRunning ==
    /\ isRunning' = ~isRunning
    /\ timer' = IF isRunning' THEN Period(variant, interval) ELSE 0
    /\ UNCHANGED <<variant, interval, stats, logs, chartData, reqs, ticks,
                   nextUuid, now, wasReset>>

(* faulty variant: the reset button is not disabled while running *)
ResetStatsMutNoGuard ==
    /\ stats' = ZeroStats(variant)
    /\ logs' = <<>>
    /\ chartData' = <<>>
    /\ wasReset' = TRUE
    /\ UNCHANGED <<variant, interval, isRunning, timer, reqs, ticks, nextUuid, now>>
(* faulty variant: the reset forgets the chart *)
ResetStatsMutKeepsChart ==
    /\ ~isRunning
    /\ stats' = ZeroStats(variant)
    /\ logs' = <<>>
    /\ wasReset' = TRUE
    /\ UNCHANGED <<variant, interval, isRunning, timer, chartData, reqs, ticks,
                   nextUuid, now>>
(* resetStats; the button is disabled while running *)
ResetStats ==
    /\ ~isRunning
    /\ stats' = ZeroStats(variant)
    /\ logs' = <<>>
    /\ chartData' = <<>>
    /\ wasReset' = TRUE
    /\ UNCHANGED <<variant, interval, isRunning, timer, reqs, ticks, nextUuid, now>>

(* onChange of the interval input; the input is disabled while running *)
ChangeInterval(v) ==
    /\ ~isRunning
    /\ interval' = OrDefault(ParseNumber(v), IF variant = "GET" THEN 100 ELSE 1)
    /\ UNCHANGED <<variant, isRunning, timer, stats, logs, chartData, reqs, ticks,
                   nextUuid, now, wasReset>>

(* the clock moves on *)
Advance ==
    /\ now < MaxTime
    /\ now' = now + 1
    /\ UNCHANGED <<variant, interval, isRunning, timer, stats, logs, chartData,
                   reqs, ticks, nextUuid, wasReset>>

----------------------------------------------------------------------------
(* sendRequest of the GET component *)

(* the timer fires: sendRequest up to its await fetch(...) *)
GetSendRequest ==
    /\ variant = "GET"
    /\ timer # 0
    /\ ticks < MaxReqs
    /\ LET requestId == nextUuid + 1
           pendingLog == [id |-> requestId,
                          timestamp |-> LocaleTimeString(now),
                          startTime |-> DateNow(now),
                          status |-> "pending",
                          message |-> "Pending..."]
       IN /\ nextUuid' = requestId
          /\ logs' = AddPendingLog(logs, pendingLog)
          /\ ticks' = ticks + 1
          /\ reqs' = Suspend(ticks', [pc |-> "fetch", requestId |-> requestId,
                                      startTime |-> now,
                                      timestamp |-> LocaleTimeString(now)])
    /\ UNCHANGED <<variant, interval, isRunning, timer, stats, chartData, now, wasReset>>

(* fetch resolved with res: the rest of the try block *)
GetFetchResolved(i, res) ==
    /\ variant = "GET"
    /\ i \in DOMAIN reqs
    /\ LET r == reqs[i]
           statusCode == res.status
           latency == Latency(r.startTime, now)
           status == IF Ok(res) THEN "success" ELSE "error"
           message == IF Ok(res) THEN <<"Success">>
                      ELSE <<"Status: ", res.status, " ", res.statusText>>
       IN /\ chartData' = AddChartPoint(chartData, [time |-> r.timestamp, latency |-> latency])
          /\ stats' = IF Ok(res) THEN GetStatSuccess(stats, latency)
                      ELSE GetStatError(stats, latency)
          /\ logs' = UpdateLog(logs, r.requestId, status, statusCode, message, latency)
    /\ reqs' = Finish(i)
    /\ UNCHANGED <<variant, interval, isRunning, timer, ticks, nextUuid, now, wasReset>>

(* faulty variant: the catch block also stops the timer *)
GetFetchRejectedMutStops(i, error) ==
    /\ variant = "GET"
    /\ i \in DOMAIN reqs
    /\ LET r == reqs[i]
           latency == Latency(r.startTime, now)
       IN /\ stats' = GetStatError(stats, latency)
          /\ logs' = UpdateLog(logs, r.requestId, "error", 0, <<ErrorMessage(error)>>, latency)
    /\ reqs' = Finish(i)
    /\ timer' = 0
    /\ UNCHANGED <<variant, interval, isRunning, chartData, ticks, nextUuid,
                   now, wasReset>>
(* fetch rejected with error: the catch block *)
GetFetchRejected(i, error) ==
    /\ variant = "GET"
    /\ i \in DOMAIN reqs
    /\ LET r == reqs[i]
           latency == Latency(r.startTime, now)
       IN /\ stats' = GetStatError(stats, latency)
          /\ logs' = UpdateLog(logs, r.requestId, "error", 0, <<ErrorMessage(error)>>, latency)
    /\ reqs' = Finish(i)
    /\ UNCHANGED <<variant, interval, isRunning, timer, chartData, ticks, nextUuid,
                   now, wasReset>>

----------------------------------------------------------------------------
(* sendRequest of the POST component *)

(* the timer fires: sendRequest up to its await fetch(...) *)
PostSendRequest ==
    /\ variant = "POST"
    /\ timer # 0
    /\ ticks < MaxReqs
    /\ ticks' = ticks + 1
    /\ reqs' = Suspend(ticks', [pc |-> "fetch", startTime |-> now])
    /\ UNCHANGED <<variant, interval, isRunning, timer, stats, logs, chartData,
                   nextUuid, now, wasReset>>

(* the catch block of the POST component *)
PostCatch(i, error, statsSoFar) ==
    /\ stats' = PostStatError(statsSoFar)
    /\ nextUuid' = nextUuid + 1
    /\ logs' = AddLog(logs, nextUuid', LocaleTimeString(now), "error",
                      <<ErrorMessage(error)>>, Latency(reqs[i].startTime, now))
    /\ reqs' = Finish(i)

(* fetch resolved with res: up to await res.json() when res.ok, else the
   whole else branch *)
PostFetchResolved(i, res) ==
    /\ variant = "POST"
    /\ i \in DOMAIN reqs
    /\ reqs[i].pc = "fetch"
    /\ LET latency == Latency(reqs[i].startTime, now)
       IN IF Ok(res)
          THEN /\ reqs' = [reqs EXCEPT ![i] = [pc |-> "json", startTime |-> @.startTime,
                                               latency |-> latency]]
               /\ UNCHANGED <<stats, logs, nextUuid>>
          ELSE /\ stats' = PostStatError(stats)
               /\ nextUuid' = nextUuid + 1
               /\ logs' = AddLog(logs, nextUuid', LocaleTimeString(now), "error",
                                 <<"Status: ", res.status, " ", res.statusText>>, latency)
               /\ reqs' = Finish(i)
    /\ UNCHANGED <<variant, interval, isRunning, timer, chartData, ticks, now, wasReset>>

(* fetch rejected with error *)
PostFetchRejected(i, error) ==
    /\ variant = "POST"
    /\ i \in DOMAIN reqs
    /\ reqs[i].pc = "fetch"
    /\ PostCatch(i, error, stats)
    /\ UNCHANGED <<variant, interval, isRunning, timer, chartData, ticks, now, wasReset>>

(* res.json() resolved with data: setStats, then addLog whose argument reads
   data.id, which throws a TypeError when data is null *)
PostJsonResolved(i, data) ==
    /\ variant = "POST"
    /\ i \in DOMAIN reqs
    /\ reqs[i].pc = "json"
    /\ IF data = "null"
       THEN PostCatch(i, NullTypeError, PostStatSuccess(stats))
       ELSE /\ stats' = PostStatSuccess(stats)
            /\ nextUuid' = nextUuid + 1
            /\ logs' = AddLog(logs, nextUuid', LocaleTimeString(now), "success",
                              <<"ID: ", "id", " - Created successfully">>,
                              reqs[i].latency)
            /\ reqs' = Finish(i)
    /\ UNCHANGED <<variant, interval, isRunning, timer, chartData, ticks, now, wasReset>>

(* res.json() rejected: the body is no JSON *)
PostJsonRejected(i) ==
    /\ variant = "POST"
    /\ i \in DOMAIN reqs
    /\ reqs[i].pc = "json"
    /\ PostCatch(i, JsonSyntaxError, stats)
    /\ UNCHANGED <<variant, interval, isRunning, timer, chartData, ticks, now, wasReset>>

----------------------------------------------------------------------------

Next ==
    \/ ToggleRunning
    \/ ResetStats
    \/ \E v \in InputValues : ChangeInterval(v)
    \/ Advance
    \/ GetSendRequest
    \/ \E i \in 1..MaxReqs, res \in Responses : GetFetchResolved(i, res)
    \/ \E i \in 1..MaxReqs, error \in Thrown : GetFetchRejected(i, error)
    \/ PostSendRequest
    \/ \E i \in 1..MaxReqs, res \in Responses : PostFetchResolved(i, res)
    \/ \E i \in 1..MaxReqs, error \in Thrown : PostFetchRejected(i, error)
    \/ \E i \in 1..MaxReqs, data \in Bodies : PostJsonResolved(i, data)
    \/ \E i \in 1..MaxReqs : PostJsonRejected(i)

Spec == Init /\ [][Next]_vars

(* the timer callback *)
SendRequest == GetSendRequest \/ PostSendRequest

(* the endpoint answers call i, or the call fails: one of its awaits ends *)
Answered(i) ==
    \/ \E res \in Responses : GetFetchResolved(i, res) \/ PostFetchResolved(i, res)
    \/ \E error \in Thrown : GetFetchRejected(i, error) \/ PostFetchRejected(i, error)
    \/ \E data \in Bodies : PostJsonResolved(i, data)
    \/ PostJsonRejected(i)

(* The event loop: an active interval timer fires, and every await ends when
   the endpoint answers or the connection fails. *)
LiveSpec ==
    /\ Init /\ [][Next]_vars
    /\ WF_vars(SendRequest)
    /\ \A i \in 1..MaxReqs : WF_vars(Answered(i))

(* A state of the component after it has run for a while: LogCap requests
   were sent at time 0 and each was answered at once with 200 OK. *)
InitFull ==
    /\ variant \in Variants
    /\ interval = InitialInterval(variant)
    /\ isRunning = FALSE
    /\ timer = 0
    /\ stats = IF variant = "GET"
               THEN [total |-> GetLogCap, success |-> GetLogCap, error |-> 0,
                     totalLatency |-> 0]
               ELSE [total |-> PostLogCap, success |-> PostLogCap, error |-> 0]
    /\ logs = IF variant = "GET"
              THEN [i \in 1..GetLogCap |->
                       [id |-> i, timestamp |-> 0, startTime |-> 0,
                        status |-> "success", statusCode |-> 200,
                        message |-> <<"Success">>, latency |-> 0]]
              ELSE [i \in 1..PostLogCap |->
                       [id |-> i, timestamp |-> 0, status |-> "success",
                        message |-> <<"ID: ", "id", " - Created successfully">>,
                        latency |-> 0]]
    /\ chartData = IF variant = "GET"
                   THEN [i \in 1..ChartCap |-> [time |-> 0, latency |-> 0]]
                   ELSE <<>>
    /\ reqs = <<>>
    /\ ticks = 0
    /\ nextUuid = Len(logs)
    /\ now = 0
    /\ wasReset = FALSE

SpecFull == InitFull /\ [][Next]_vars

(* A state of the GET component in which the oldest entry of a full log is
   still pending: 200 requests were sent at time 0, all but the first were
   answered at once with 200 OK, then the loop was stopped. The first call
   is call 1 of reqs. The POST component starts as in InitFull. *)
InitEvict ==
    \/ InitFull /\ variant = "POST"
    \/ /\ variant = "GET"
       /\ interval = InitialInterval(variant)
       /\ isRunning = FALSE
       /\ timer = 0
       /\ stats = [total |-> GetLogCap - 1, success |-> GetLogCap - 1, error |-> 0,
                   totalLatency |-> 0]
       /\ logs = [i \in 1..GetLogCap |->
                     IF i = 1
                     THEN [id |-> i, timestamp |-> 0, startTime |-> 0,
                           status |-> "pending", message |-> "Pending..."]
                     ELSE [id |-> i, timestamp |-> 0, startTime |-> 0,
                           status |-> "success", statusCode |-> 200,
                           message |-> <<"Success">>, latency |-> 0]]
       /\ chartData = [i \in 1..(GetLogCap - 1) |-> [time |-> 0, latency |-> 0]]
       /\ reqs = (1 :> [pc |-> "fetch", requestId |-> 1, startTime |-> 0,
                        timestamp |-> 0])
       /\ ticks = 1
       /\ nextUuid = GetLogCap
       /\ now = 0
       /\ wasReset = FALSE

SpecEvict == InitEvict /\ [][Next]_vars

----------------------------------------------------------------------------
(* Vocabulary of the properties *)

InOkRange(code) == code \in 200..299
Terminal == {"success", "error"}
Last(s) == s[Len(s)]
Min(a, b) == IF a <= b THEN a ELSE b
InFlight == DOMAIN reqs
Leaves(i) == i \in DOMAIN reqs /\ i \notin DOMAIN reqs'
SettledCount == ticks - Cardinality(DOMAIN reqs)
RoundedMs(i) == (now - reqs[i].startTime + 1) \div 2

(* new holds old followed by one more element, cut to its last cap elements *)
KeepsNewest(old, new, cap) ==
    /\ Len(new) = Min(Len(old) + 1, cap)
    /\ \A k \in 1..(Len(new) - 1) : new[k] = old[Len(old) - (Len(new) - 1) + k]

CountedAsSuccess ==
    /\ stats'.total = stats.total + 1
    /\ stats'.success = stats.success + 1
    /\ stats'.error = stats.error

CountedAsError ==
    /\ stats'.total = stats.total + 1
    /\ stats'.error = stats.error + 1
    /\ stats'.success = stats.success

----------------------------------------------------------------------------
(* C1: in both components, in every reachable state,
   stats.total = stats.success + stats.error. *)
TotalIsSuccessPlusError == stats.total = stats.success + stats.error

(* both outcomes have been counted, in a state reached after a reset *)
TotalIsSuccessPlusErrorWitness ==
    stats.success >= 1 /\ stats.error >= 1 /\ wasReset

(* C2: with no reset, once k requests have settled, in any order, total is
   exactly k and success + error is exactly k. *)
NoLostUpdate ==
    ~wasReset => /\ stats.total = SettledCount
                 /\ stats.success + stats.error = SettledCount

(* C3: the log never holds more than its cap and the chart never more than
   200 points; every step that adds a log entry or a chart point keeps the
   newest elements, in their order, and drops from the front only what
   exceeds the cap. *)
CapsAndFifo ==
    /\ [](Len(logs) <= LogCap /\ Len(chartData) <= ChartCap)
    /\ [][ /\ nextUuid' # nextUuid =>
                /\ logs' # <<>>
                /\ Last(logs').id = nextUuid'
                /\ KeepsNewest(logs, logs', LogCap)
           /\ (variant = "GET" /\ stats'.success = stats.success + 1) =>
                /\ chartData' # <<>>
                /\ Last(chartData').latency = stats'.totalLatency - stats.totalLatency
                /\ KeepsNewest(chartData, chartData', ChartCap) ]_vars

(* a full log and a full chart have each dropped their oldest element and
   hold the newest one at the end *)
CapsAndFifoWitness ==
    /\ variant = "GET"
    /\ Len(logs) = GetLogCap /\ logs[1].id = 2 /\ Last(logs).id = GetLogCap + 1
    /\ Len(chartData) = ChartCap /\ Last(chartData).latency = 1

(* C4: in the GET component an entry enters the log pending, an entry that is
   not pending never changes again, a pending entry either stays as it is or
   becomes success or error keeping its id, and no two entries of the log
   have the same id. *)
PendingSettlesOnce ==
    /\ [](variant = "GET" =>
            \A j, k \in DOMAIN logs : logs[j].id = logs[k].id => j = k)
    /\ [][variant = "GET" =>
            \A k \in DOMAIN logs' :
                LET new == logs'[k]
                    olds == {j \in DOMAIN logs : logs[j].id = new.id}
                IN IF olds = {}
                   THEN new.status = "pending"
                   ELSE \A j \in olds :
                          \/ new = logs[j]
                          \/ /\ logs[j].status = "pending"
                             /\ new.status \in Terminal
                             /\ new.timestamp = logs[j].timestamp
                             /\ new.startTime = logs[j].startTime ]_vars

(* a settled entry sits next to a later entry that is still pending, while
   another request is settling *)
PendingSettlesOnceWitness ==
    /\ variant = "GET"
    /\ Len(logs) = 2
    /\ logs[1].status = "success"
    /\ logs[2].status = "pending"
    /\ now > 0

(* C5: in the GET component the log is in dispatch order whatever the order
   of settlement; a settling request changes the entry with its own id, and
   only that one, to its own outcome and its own latency; with no reset,
   total is the number of settled requests. *)
OutOfOrderSettlement ==
    /\ [](variant = "GET" =>
            /\ \A j, k \in DOMAIN logs : j < k => logs[j].id < logs[k].id
            /\ ~wasReset => stats.total = SettledCount)
    /\ [][variant = "GET" =>
            \A i \in 1..MaxReqs : Leaves(i) =>
                /\ Len(logs') = Len(logs)
                /\ \A k \in DOMAIN logs :
                      IF logs[k].id = reqs[i].requestId
                      THEN /\ logs'[k].id = logs[k].id
                           /\ logs'[k].latency = RoundedMs(i)
                           /\ logs'[k].status \in Terminal
                           /\ logs'[k].status = "success" <=>
                                 stats'.success = stats.success + 1
                      ELSE logs'[k] = logs[k] ]_vars

(* the second request has settled while the first one is still pending *)
OutOfOrderSettlementWitness ==
    /\ variant = "GET"
    /\ Len(logs) = 2
    /\ logs[1].status = "pending"
    /\ logs[2].status \in Terminal
    /\ stats.total = 1

(* C6: in both components a request whose response has a status in the ok
   range counts as a success: success and total grow by one, error stays. *)
OkResponseIsSuccess ==
    [][\A i \in 1..MaxReqs :
         /\ \A res \in Responses :
               (InOkRange(res.status) /\ GetFetchResolved(i, res)) => CountedAsSuccess
         /\ (variant = "POST" /\ Leaves(i) /\ reqs[i].pc = "json") => CountedAsSuccess ]_vars

(* C7: a response with a status outside the ok range counts as an error:
   total and error grow by one, success stays, and in the GET component the
   entry of the request gets status error and the status code of the
   response. *)
HttpErrorIsError ==
    [][\A i \in 1..MaxReqs, res \in Responses :
         (~InOkRange(res.status) /\ (GetFetchResolved(i, res) \/ PostFetchResolved(i, res))) =>
            /\ CountedAsError
            /\ Leaves(i)
            /\ variant = "GET" =>
                 \A k \in DOMAIN logs : logs[k].id = reqs[i].requestId =>
                    /\ logs'[k].status = "error"
                    /\ logs'[k].statusCode = res.status
            /\ variant = "POST" => Last(logs').status = "error" ]_vars

(* responses 300 and 500 have both been counted as errors in the GET
   component and show their status codes in the log *)
HttpErrorIsErrorWitness ==
    /\ variant = "GET"
    /\ Len(logs) = 2
    /\ logs[1].status = "error" /\ logs[1].statusCode = 500
    /\ logs[2].status = "error" /\ logs[2].statusCode = 300
    /\ stats.error = 2 /\ stats.success = 0

(* C8: a rejected fetch counts as an error, once: total and error grow by
   one, success stays, the call is over; the latency is the rounded time
   since the call's own startTime; in the GET component the entry of the
   request gets status error, statusCode 0 and the message of the error, or
   "Network Error" when what was thrown is no Error. *)
RejectionIsError ==
    [][\A i \in 1..MaxReqs, error \in Thrown :
         (GetFetchRejected(i, error) \/ PostFetchRejected(i, error)) =>
            /\ CountedAsError
            /\ Leaves(i)
            /\ variant = "GET" =>
                 /\ stats'.totalLatency = stats.totalLatency + RoundedMs(i)
                 /\ \A k \in DOMAIN logs : logs[k].id = reqs[i].requestId =>
                       /\ logs'[k].status = "error"
                       /\ logs'[k].statusCode = 0
                       /\ logs'[k].latency = RoundedMs(i)
                       /\ logs'[k].message =
                            IF error.isError THEN <<error.message>> ELSE <<"Network Error">>
            /\ variant = "POST" =>
                 /\ Last(logs').status = "error"
                 /\ Last(logs').latency = RoundedMs(i)
                 /\ Last(logs').message =
                      IF error.isError THEN <<error.message>> ELSE <<"Network Error">> ]_vars

(* a rejection with a value that is no Error, half a millisecond after the
   request was sent, is in the log of the GET component *)
RejectionIsErrorWitness ==
    /\ variant = "GET"
    /\ Len(logs) >= 1
    /\ logs[1].status = "error" /\ logs[1].statusCode = 0
    /\ logs[1].message = <<"Network Error">>
    /\ logs[1].latency = 1
    /\ stats.error = 1 /\ stats.total = 1

(* C9: in the GET component, with no reset and fewer than 200 settlements,
   the chart holds one point for each settled request. *)
ChartPointPerSettlement ==
    (variant = "GET" /\ ~wasReset /\ stats.total < ChartCap) =>
        Len(chartData) = stats.total

(* C10: a settlement applies all its effects in its one step: total and one
   of success and error grow by one, the entry of the request is in the log
   and no longer pending, and in the GET component the chart has one point
   more; and stats changes in no other step but a reset. *)
SettlementIsAtomic ==
    [][ /\ \A i \in 1..MaxReqs : Leaves(i) =>
              /\ stats'.total = stats.total + 1
              /\ stats'.success + stats'.error = stats.success + stats.error + 1
              /\ variant = "GET" =>
                   /\ stats'.totalLatency = stats.totalLatency + RoundedMs(i)
                   /\ \E k \in DOMAIN logs' :
                         logs'[k].id = reqs[i].requestId /\ logs'[k].status \in Terminal
                   /\ chartData' # <<>>
                   /\ KeepsNewest(chartData, chartData', ChartCap)
              /\ variant = "POST" =>
                   /\ logs' # <<>>
                   /\ Last(logs').id = nextUuid'
                   /\ KeepsNewest(logs, logs', PostLogCap)
        /\ stats' # stats =>
              \/ \E i \in 1..MaxReqs : Leaves(i)
              \/ stats' = ZeroStats(variant) ]_vars

----------------------------------------------------------------------------
(* C11: while stopped no request is sent; the stop itself changes no
   request in flight and nothing they update; and a request that settles
   while stopped still counts in stats, leaves its entry in the log settled
   and, in the GET component, adds its point to the chart. *)
StopKeepsInFlight ==
    [][ /\ ~isRunning => ticks' = ticks
        /\ (isRunning /\ ~isRunning') =>
              /\ timer' = 0
              /\ UNCHANGED <<reqs, stats, logs, chartData>>
        /\ \A i \in 1..MaxReqs : (~isRunning /\ Leaves(i)) =>
              /\ stats'.total > stats.total
              /\ variant = "GET" =>
                   /\ \E k \in DOMAIN logs' :
                         logs'[k].id = reqs[i].requestId /\ logs'[k].status \in Terminal
                   /\ chartData' # <<>>
                   /\ KeepsNewest(chartData, chartData', ChartCap)
              /\ variant = "POST" =>
                   /\ logs' # <<>>
                   /\ Last(logs').id = nextUuid' ]_vars

(* the part of C11 that does not depend on what a settlement updates: no
   request is sent while stopped, a stop cancels nothing, and a request that
   settles while stopped is counted *)
StopKeepsInFlightCounted ==
    [][ /\ ~isRunning => ticks' = ticks
        /\ (isRunning /\ ~isRunning') =>
              /\ timer' = 0
              /\ UNCHANGED <<reqs, stats, logs, chartData>>
        /\ \A i \in 1..MaxReqs : (~isRunning /\ Leaves(i)) =>
              stats'.total > stats.total ]_vars

----------------------------------------------------------------------------
(* C12: while running, no step resets or changes the interval: the interval
   and, as long as the loop keeps running, the period of the timer stay as
   they are, the counters never go down, and the log and the chart are never
   emptied. *)
NoOpWhileRunning ==
    [][isRunning =>
         /\ interval' = interval
         /\ isRunning' => timer' = timer
         /\ wasReset' = wasReset
         /\ stats'.total >= stats.total
         /\ stats'.success >= stats.success
         /\ stats'.error >= stats.error
         /\ variant = "GET" => stats'.totalLatency >= stats.totalLatency
         /\ Len(logs') >= Len(logs)
         /\ Len(chartData') >= Len(chartData) ]_vars

(* the loop runs with an interval typed in earlier, after an earlier reset,
   and there is something a reset would clear *)
NoOpWhileRunningWitness ==
    /\ isRunning
    /\ wasReset
    /\ interval # InitialInterval(variant)
    /\ stats.total >= 1
    /\ logs # <<>>

(* C13: a reset, which can only happen while not running, leaves every
   counter at 0 and the log and the chart empty, and changes neither
   isRunning nor the interval nor the timer. *)
ResetYieldsZero ==
    [][ResetStats =>
         /\ ~isRunning
         /\ stats'.total = 0 /\ stats'.success = 0 /\ stats'.error = 0
         /\ variant = "GET" => stats'.totalLatency = 0
         /\ logs' = <<>>
         /\ chartData' = <<>>
         /\ isRunning' = isRunning
         /\ interval' = interval
         /\ timer' = timer ]_vars

(* the GET component has been reset after requests were counted, one of
   them still in flight *)
ResetYieldsZeroWitness ==
    /\ variant = "GET"
    /\ wasReset
    /\ ~isRunning
    /\ stats = [total |-> 0, success |-> 0, error |-> 0, totalLatency |-> 0]
    /\ logs = <<>> /\ chartData = <<>>
    /\ nextUuid = 2
    /\ Cardinality(DOMAIN reqs) = 1

----------------------------------------------------------------------------
(* the number of hundredths a two-decimal string stands for *)
Hundredths(str) == str[1] * 100 + str[2] * 10 + str[3]

(* h hundredths is n / d rounded to hundredths *)
IsRounded(h, n, d) ==
    /\ 2 * (h * d - 100 * n) <= d
    /\ 2 * (100 * n - h * d) <= d

(* C14: with total = 0 both metrics are "0.00"; otherwise errorRate is
   error / total * 100 to two decimals, between 0 and 100, and avgLatency is
   totalLatency / total to two decimals; totalLatency grows by the latency of
   each request in the step that counts it in total, a reset zeroes both,
   and no other step changes them. *)
DerivedMetrics ==
    /\ [](/\ stats.total = 0 =>
               /\ ErrorRate = <<0, 0, 0>>
               /\ variant = "GET" => AvgLatency = <<0, 0, 0>>
          /\ stats.total > 0 =>
               /\ IsRounded(Hundredths(ErrorRate), 100 * stats.error, stats.total)
               /\ Hundredths(ErrorRate) \in 0..10000
               /\ variant = "GET" =>
                    IsRounded(Hundredths(AvgLatency), stats.totalLatency, stats.total))
    /\ [][variant = "GET" =>
            /\ \A i \in 1..MaxReqs : Leaves(i) =>
                  /\ stats'.total = stats.total + 1
                  /\ stats'.totalLatency = stats.totalLatency + RoundedMs(i)
            /\ (\A i \in 1..MaxReqs : ~Leaves(i)) =>
                  \/ stats' = stats
                  \/ stats'.total = 0 /\ stats'.totalLatency = 0 ]_vars

(* two failed requests of one millisecond each after 200 successes of none:
   0.99 percent errors (0.990099...) and 0.01 ms on average (0.009900...) *)
DerivedMetricsWitness ==
    /\ variant = "GET"
    /\ stats.total = 202 /\ stats.error = 2 /\ stats.totalLatency = 2
    /\ ErrorRate = <<0, 9, 9>>
    /\ AvgLatency = <<0, 0, 1>>

----------------------------------------------------------------------------
(* C15: no step of a request changes isRunning or the timer; the timer does
   not stay active for ever without sending the next request, however many
   requests have failed (ticks only grows, so again and again the loop is
   stopped or has sent every request the model allows); and no request stays
   in flight for ever. *)
LoopNeverHalts ==
    /\ [][(reqs' # reqs \/ stats' # stats \/ logs' # logs) =>
            (isRunning' = isRunning /\ timer' = timer)]_vars
    /\ []<>(timer = 0 \/ ticks = MaxReqs)
    /\ \A i \in 1..MaxReqs : []<>(i \notin DOMAIN reqs)

(* the loop is still running and has sent a second request after the first
   one failed *)
LoopNeverHaltsWitness ==
    /\ isRunning /\ timer # 0
    /\ stats.error = 1 /\ stats.total = 1
    /\ ticks = 2
    /\ DOMAIN reqs = {2}
    /\ ~wasReset

----------------------------------------------------------------------------
(* C16: in the GET component a request that settles when no entry of the log
   has its id leaves the log as it is, and is counted all the same: total
   and one of success and error grow by one and totalLatency by its
   latency. *)
LateSettlement ==
    [][variant = "GET" =>
         \A i \in 1..MaxReqs :
            (Leaves(i) /\ \A k \in DOMAIN logs : logs[k].id # reqs[i].requestId) =>
               /\ logs' = logs
               /\ stats'.total = stats.total + 1
               /\ stats'.success + stats'.error = stats.success + stats.error + 1
               /\ stats'.totalLatency = stats.totalLatency + RoundedMs(i) ]_vars

(* after a reset, a request sent before it has been counted: total is 1
   while the log holds no entry at all *)
LateSettlementWitness ==
    /\ variant = "GET"
    /\ wasReset
    /\ stats.total = 1 /\ stats.totalLatency = 1
    /\ logs = <<>>
    /\ DOMAIN reqs = {}

(* the other way into the case of C16: the pending entry of call 1 was
   pushed out of the full log by a later request, then call 1 settled and was
   counted, with 199 settled entries in the log and a total of 200 *)
LateSettlementEvicted ==
    /\ variant = "GET"
    /\ ~wasReset
    /\ Len(logs) = GetLogCap /\ logs[1].id = 2
    /\ logs[GetLogCap].status = "pending"
    /\ DOMAIN reqs = {2}
    /\ stats.total = GetLogCap
    /\ Cardinality({k \in DOMAIN logs : logs[k].status # "pending"}) = GetLogCap - 1

====
